---- MODULE Spec2Model ----
(***************************************************************************)
(* Model of ocs_ci/utility/kms.py: the Vault deployment driver.            *)
(*                                                                         *)
(* The state is one Vault object (its attributes), the process             *)
(* environment, the configuration ENV_DATA, the external vault server and  *)
(* the per-call log of external commands.  A call of a public method is    *)
(* executed step by step: todo is the continuation of the call in          *)
(* progress (the labels still to execute, innermost first), and a raise    *)
(* empties it.  External commands are modelled as returning their output:  *)
(* what they answer is chosen nondeterministically.                        *)
(***************************************************************************)
EXTENDS Integers, Sequences, FiniteSets, TLC

VARIABLES
    ENV_DATA,     \* config.ENV_DATA: the flags the module reads
    host,         \* the distribution name of the host running the driver
    clusterID,    \* what 'oc get clusterversion' answers
    self,         \* the attributes of the Vault object
    environ,      \* os.environ: VAULT_ADDR, VAULT_TOKEN
    sealed,       \* vault server: is it sealed
    enabled,      \* vault server: the secret paths enabled
    policies,     \* vault server: the policies written, <<name, path glob>>
    entry,        \* the public method called from outside ("" before any call)
    todo,         \* continuation of the call in progress
    result,       \* "idle", "running", "returned" or the exception raised
    fault,        \* the never-assigned attribute an AttributeError came from
    cmds,         \* external commands issued by the call in progress
    self0,        \* the attributes at the moment of the call
    environ0      \* the environment at the moment of the call

vars == <<ENV_DATA, host, clusterID, self, environ, sealed, enabled, policies,
          entry, todo, result, fault, cmds, self0, environ0>>

(***************************************************************************)
(* Bounds.                                                                 *)
(***************************************************************************)
NumClusterIds == 1
MaxTokenLen == 2

(***************************************************************************)
(* Values.                                                                 *)
(***************************************************************************)
\* Python's None and "attribute never assigned", for string attributes
None == "<None>"
Unassigned == "<unassigned>"
\* the same two for token attributes, which are sequences of code points
NoneTok == <<-1>>
UnsetEnv == <<-2>>

\* str(v) as an f-string renders it
Str(v) == IF v = None THEN "None" ELSE v

\* code points tokens are made of: 'R' and U+00E9
TokenChars == {82, 233}

RECURSIVE SeqsUpTo(_, _)
SeqsUpTo(S, n) ==
    IF n = 0 THEN {<<>>}
    ELSE LET shorter == SeqsUpTo(S, n - 1)
         IN  shorter \cup {Append(s, c) : s \in shorter, c \in S}

\* VAULT_ROOT_TOKEN of the auth file
RootToken == <<82>>
\* what 'vault token create' can answer: any other non-empty token
Tokens == SeqsUpTo(TokenChars, MaxTokenLen) \ {<<>>, RootToken}

ClusterIds == {"cid" \o ToString(i) : i \in 1..NumClusterIds}

\* names of ocs_ci.ocs.constants; the strings stand for their values, which
\* kms.py only passes on
VAULT_DEFAULT_PATH_PREFIX == "ocs"
VAULT_DEFAULT_POLICY_PREFIX == "rook"
VAULT_DEFAULT_CA_CERT == "ocs-kms-ca-secret"
VAULT_DEFAULT_CLIENT_CERT == "ocs-kms-client-cert"
VAULT_DEFAULT_CLIENT_KEY == "ocs-kms-client-key"
VAULT_DEFAULT_NAMESPACE == "ocs-ns"

\* load_auth_config()["vault"]
AuthVault ==
    [VAULT_ADDR |-> "vault.example.com", PORT |-> "8200",
     VAULT_CACERT_BASE64 |-> "Q0E=", VAULT_CLIENT_CERT_BASE64 |-> "Q0M=",
     VAULT_CLIENT_KEY_BASE64 |-> "Q0s=", VAULT_TLS_SERVER_NAME |-> "tls.example.com",
     VAULT_ROOT_TOKEN |-> RootToken,
     UNSEAL_KEY1 |-> "key-one", UNSEAL_KEY2 |-> "key-two", UNSEAL_KEY3 |-> "key-three"]

(***************************************************************************)
(* str.encode() / bytes.decode(): UTF-8, for code points below 2048.       *)
(***************************************************************************)
RECURSIVE Utf8Encode(_)
Utf8Encode(s) ==
    IF s = <<>> THEN <<>>
    ELSE LET c == Head(s)
         IN  (IF c < 128 THEN <<c>>
              ELSE <<192 + (c \div 64), 128 + (c % 64)>>) \o Utf8Encode(Tail(s))

RECURSIVE Utf8Decode(_)
Utf8Decode(b) ==
    IF b = <<>> THEN <<>>
    ELSE IF Head(b) < 128 THEN <<Head(b)>> \o Utf8Decode(Tail(b))
    ELSE <<(Head(b) - 192) * 64 + (b[2] - 128)>> \o Utf8Decode(Tail(Tail(b)))

(***************************************************************************)
(* base64.b64encode / b64decode.  A character of the output is its index   *)
(* in the base64 alphabet, 0..63; Pad is '='.                               *)
(***************************************************************************)
Pad == 64

RECURSIVE B64Encode(_)
B64Encode(b) ==
    IF b = <<>> THEN <<>>
    ELSE IF Len(b) = 1 THEN
        <<b[1] \div 4, (b[1] % 4) * 16, Pad, Pad>>
    ELSE IF Len(b) = 2 THEN
        <<b[1] \div 4, (b[1] % 4) * 16 + (b[2] \div 16), (b[2] % 16) * 4, Pad>>
    ELSE
        <<b[1] \div 4, (b[1] % 4) * 16 + (b[2] \div 16),
          (b[2] % 16) * 4 + (b[3] \div 64), b[3] % 64>>
        \o B64Encode(SubSeq(b, 4, Len(b)))

RECURSIVE B64Decode(_)
B64Decode(e) ==
    IF e = <<>> THEN <<>>
    ELSE LET b1 == e[1] * 4 + (e[2] \div 16)
             b2 == (e[2] % 16) * 16 + (e[3] \div 4)
             b3 == (e[3] % 4) * 64 + e[4]
         IN  IF e[3] = Pad THEN <<b1>>
             ELSE IF e[4] = Pad THEN <<b1, b2>>
             ELSE <<b1, b2, b3>> \o B64Decode(SubSeq(e, 5, Len(e)))

(***************************************************************************)
(* The external commands log.                                              *)
(***************************************************************************)
NoRes == [name |-> "", cert |-> "", token |-> <<>>, data |-> <<>>]

\* a subprocess inherits the environment: env tells whether VAULT_ADDR and
\* VAULT_TOKEN were set when the command was issued
EnvSet == environ.VAULT_ADDR # None /\ environ.VAULT_TOKEN # UnsetEnv

Cmd(c, a, a2, o) ==
    [cmd |-> c, arg |-> a, arg2 |-> a2, out |-> o, tok |-> <<>>, res |-> NoRes,
     env |-> EnvSet]
TokCmd(c, a, t) ==
    [cmd |-> c, arg |-> a, arg2 |-> "", out |-> "", tok |-> t, res |-> NoRes,
     env |-> EnvSet]
\* create_resource: the yaml is dumped to a temp file named after prefix
\* and handed to 'oc create -f'
create_resource(resource_data, prefix) ==
    [cmd |-> "oc create", arg |-> prefix, arg2 |-> "", out |-> "", tok |-> <<>>,
     res |-> resource_data, env |-> EnvSet]

\* the value of the expression distro.linux_distribution: the function
\* itself, which the code does not call
DistroLinuxDistribution == "<function linux_distribution>"

Hosts == {"CentOS Linux", "Ubuntu"}
DeployModes == {"external", "internal", "standalone", None}

EntryPoints == {"deploy", "vault_prereq", "vault_unseal",
                "vault_create_backend_path", "create_ocs_vault_resources"}

(***************************************************************************)
(* Control: the continuation of the call in progress.                      *)
(***************************************************************************)
Running == todo # <<>>
At(label) == Running /\ Head(todo) = label

\* the step returns or goes on with the labels in next
Continue(next) ==
    /\ todo' = next \o Tail(todo)
    /\ result' = IF next \o Tail(todo) = <<>> THEN "returned" ELSE "running"
    /\ fault' = fault

Raise(exc) ==
    /\ todo' = <<>>
    /\ result' = exc
    /\ fault' = fault

\* AttributeError: the object has no attribute attr
RaiseUnassigned(attr) ==
    /\ todo' = <<>>
    /\ result' = "AttributeError"
    /\ fault' = attr

Frame == UNCHANGED <<ENV_DATA, host, clusterID, entry, self0, environ0>>

(***************************************************************************)
(* Vault.__init__                                                          *)
(***************************************************************************)
NewVault(mode) ==
    [vault_server |-> None, port |-> None,
     ca_cert_name |-> None, client_cert_name |-> None, client_key_name |-> None,
     vault_root_token |-> NoneTok, vault_namespace |-> None,
     vault_deploy_mode |-> mode,
     vault_backend_path |-> None, vault_path_token |-> NoneTok,
     vault_policy_name |-> None,
     \* attributes __init__ does not assign
     vault_conf |-> Unassigned, ca_cert_base64 |-> Unassigned,
     client_cert_base64 |-> Unassigned, client_key_base64 |-> Unassigned,
     vault_tls_server |-> Unassigned, cluster_id |-> Unassigned]

Init ==
    /\ ENV_DATA \in [vault_deploy_mode : DeployModes,
                     VAULT_SKIP_VERIFY : BOOLEAN,
                     VAULT_BACKEND_PATH : {None, "cfg-path"},
                     VAULT_POLICY : {None, "cfg-policy"}]
    /\ host \in Hosts
    /\ clusterID \in ClusterIds
    /\ self = NewVault(ENV_DATA.vault_deploy_mode)
    /\ environ = [VAULT_ADDR |-> None, VAULT_TOKEN |-> UnsetEnv]
    /\ sealed \in BOOLEAN
    /\ enabled = {}
    /\ policies = {}
    /\ entry = ""
    /\ todo = <<>>
    /\ result = "idle"
    /\ fault = ""
    /\ cmds = <<>>
    /\ self0 = self
    /\ environ0 = environ

\* a caller invokes a public method of the object
Call(m) ==
    /\ ~Running
    /\ entry' = m
    /\ todo' = <<m>>
    /\ result' = "running"
    /\ fault' = ""
    /\ cmds' = <<>>
    /\ self0' = self
    /\ environ0' = environ
    /\ UNCHANGED <<ENV_DATA, host, clusterID, self, environ, sealed, enabled, policies>>

(***************************************************************************)
(* deploy and the external deployment                                      *)
(***************************************************************************)
\* deploy without the final else: an unknown mode falls through to the stub
deploy_NoElse ==
    /\ At("deploy")
    /\ IF self.vault_deploy_mode = "external"
       THEN Continue(<<"deploy_vault_external">>)
       ELSE Continue(<<"deploy_vault_internal">>)
    /\ Frame
    /\ UNCHANGED <<self, environ, sealed, enabled, policies, cmds>>


deploy ==
    /\ At("deploy")
    /\ IF self.vault_deploy_mode = "external"
       THEN Continue(<<"deploy_vault_external">>)
       ELSE IF self.vault_deploy_mode = "internal"
       THEN Continue(<<"deploy_vault_internal">>)
       ELSE Raise("UnsupportedVaultDeployMode")
    /\ Frame
    /\ UNCHANGED <<self, environ, sealed, enabled, policies, cmds>>

deploy_vault_internal ==
    /\ At("deploy_vault_internal")
    /\ Continue(<<>>)
    /\ Frame
    /\ UNCHANGED <<self, environ, sealed, enabled, policies, cmds>>

\* None unless the deploy mode is external
gather_vault_config ==
    IF self.vault_deploy_mode = "external" THEN "vault" ELSE None

\* lines 95-105: the attributes are filled from the auth file
deploy_vault_external ==
    /\ At("deploy_vault_external")
    /\ LET conf == gather_vault_config IN
       IF conf = None
       THEN \* None["VAULT_ADDR"]
            /\ self' = [self EXCEPT !.vault_conf = None]
            /\ Raise("TypeError")
       ELSE /\ self' =
                 [self EXCEPT
                    !.vault_conf = conf,
                    !.vault_server = AuthVault.VAULT_ADDR,
                    !.port = AuthVault.PORT,
                    !.ca_cert_base64 =
                        IF ~ENV_DATA.VAULT_SKIP_VERIFY
                        THEN AuthVault.VAULT_CACERT_BASE64 ELSE @,
                    !.client_cert_base64 =
                        IF ~ENV_DATA.VAULT_SKIP_VERIFY
                        THEN AuthVault.VAULT_CLIENT_CERT_BASE64 ELSE @,
                    !.client_key_base64 =
                        IF ~ENV_DATA.VAULT_SKIP_VERIFY
                        THEN AuthVault.VAULT_CLIENT_KEY_BASE64 ELSE @,
                    !.vault_tls_server =
                        IF ~ENV_DATA.VAULT_SKIP_VERIFY
                        THEN AuthVault.VAULT_TLS_SERVER_NAME ELSE @,
                    !.vault_root_token = AuthVault.VAULT_ROOT_TOKEN]
            /\ Continue(<<"update_vault_env_vars", "vault_prereq",
                          "create_ocs_vault_resources">>)
    /\ Frame
    /\ UNCHANGED <<environ, sealed, enabled, policies, cmds>>

update_vault_env_vars ==
    /\ At("update_vault_env_vars")
    /\ LET addr == "https://" \o Str(self.vault_server) \o ":" \o Str(self.port) IN
       IF self.vault_root_token = NoneTok
       THEN \* os.environ[...] = None
            /\ environ' = [environ EXCEPT !.VAULT_ADDR = addr]
            /\ Raise("TypeError")
       ELSE /\ environ' = [VAULT_ADDR |-> addr, VAULT_TOKEN |-> self.vault_root_token]
            /\ Continue(<<>>)
    /\ Frame
    /\ UNCHANGED <<self, sealed, enabled, policies, cmds>>

vault_prereq ==
    /\ At("vault_prereq")
    /\ Continue(<<"get_vault_cli", "vault_unseal", "vault_create_backend_path">>)
    /\ Frame
    /\ UNCHANGED <<self, environ, sealed, enabled, policies, cmds>>

\* the else branch raises a tuple, which is a TypeError
get_vault_cli ==
    /\ At("get_vault_cli")
    /\ IF DistroLinuxDistribution = "CentOS Linux"
       THEN /\ cmds' = cmds \o <<Cmd("sudo yum install -y", "deps", "", ""),
                                 Cmd("sudo yum-config-manager --add-repo", "repo", "", ""),
                                 Cmd("sudo yum -y install", "vault", "", "")>>
            /\ Continue(<<>>)
       ELSE /\ cmds' = cmds
            /\ Raise("TypeError")
    /\ Frame
    /\ UNCHANGED <<self, environ, sealed, enabled, policies>>

(***************************************************************************)
(* vault_unseal, vault_sealed, _vault_unseal                               *)
(***************************************************************************)
\* vault_sealed: 'vault status --format=json', the "sealed" field
vault_sealed == Cmd("vault status", "", "", IF sealed THEN "sealed" ELSE "unsealed")

UnsealLabel(i) == "_vault_unseal" \o ToString(i)

\* vault_unseal without the status test: the keys are sent in any case
vault_unseal_Always ==
    /\ At("vault_unseal")
    /\ cmds' = Append(cmds, vault_sealed)
    /\ Continue(<<UnsealLabel(1), UnsealLabel(2), UnsealLabel(3),
                  "vault_unseal_check">>)
    /\ Frame
    /\ UNCHANGED <<self, environ, sealed, enabled, policies>>

\* line 220: the first status check decides
vault_unseal ==
    /\ At("vault_unseal")
    /\ cmds' = Append(cmds, vault_sealed)
    /\ IF sealed
       THEN Continue(<<UnsealLabel(1), UnsealLabel(2), UnsealLabel(3),
                       "vault_unseal_check">>)
       ELSE Continue(<<>>)
    /\ Frame
    /\ UNCHANGED <<self, environ, sealed, enabled, policies>>

\* lines 222-224: one turn of the loop; whether the keys open the vault is
\* the server's affair
_vault_unseal(i) ==
    /\ At(UnsealLabel(i))
    /\ IF self.vault_conf = Unassigned
       THEN /\ RaiseUnassigned("vault_conf")
            /\ UNCHANGED <<cmds, sealed>>
       ELSE IF self.vault_conf = None
       THEN /\ Raise("TypeError")
            /\ UNCHANGED <<cmds, sealed>>
       ELSE /\ cmds' = Append(cmds, Cmd("vault operator unseal",
                                        AuthVault["UNSEAL_KEY" \o ToString(i)], "", ""))
            /\ \E opens \in BOOLEAN : sealed' = IF i = 3 /\ opens THEN FALSE ELSE sealed
            /\ Continue(<<>>)
    /\ Frame
    /\ UNCHANGED <<self, environ, enabled, policies>>

\* the check after the keys, trying the keys again while still sealed
vault_unseal_check_Retry ==
    /\ At("vault_unseal_check")
    /\ cmds' = Append(cmds, vault_sealed)
    /\ IF sealed
       THEN Continue(<<UnsealLabel(1), UnsealLabel(2), UnsealLabel(3),
                       "vault_unseal_check">>)
       ELSE Continue(<<>>)
    /\ Frame
    /\ UNCHANGED <<self, environ, sealed, enabled, policies>>

\* lines 226-229
vault_unseal_check ==
    /\ At("vault_unseal_check")
    /\ cmds' = Append(cmds, vault_sealed)
    /\ IF sealed THEN Raise("VaultUnsealFailed") ELSE Continue(<<>>)
    /\ Frame
    /\ UNCHANGED <<self, environ, sealed, enabled, policies>>

(***************************************************************************)
(* vault_create_backend_path, vault_create_policy, generate_vault_token    *)
(***************************************************************************)
Outputs == {"Success! Enabled", "Error"}
HasSuccess(out) == out = "Success! Enabled"

get_cluster_id == Cmd("oc get clusterversion", "", "", clusterID)

\* vault_create_backend_path without the test of the output
vault_create_backend_path_Unchecked ==
    /\ At("vault_create_backend_path")
    /\ LET configured == ENV_DATA.VAULT_BACKEND_PATH # None
           path == IF configured THEN ENV_DATA.VAULT_BACKEND_PATH
                   ELSE VAULT_DEFAULT_PATH_PREFIX \o "-" \o clusterID
           fetched == IF configured THEN <<>> ELSE <<get_cluster_id>>
       IN  /\ self' = [self EXCEPT !.vault_backend_path = path,
                                   !.cluster_id = IF configured THEN @ ELSE clusterID]
           /\ \E out \in Outputs :
                /\ cmds' = cmds \o fetched \o <<Cmd("vault secrets enable", path, "", out)>>
                /\ enabled' = IF HasSuccess(out) THEN enabled \cup {path} ELSE enabled
                /\ Continue(<<"vault_create_policy">>)
    /\ Frame
    /\ UNCHANGED <<environ, sealed, policies>>

\* lines 259-276
vault_create_backend_path ==
    /\ At("vault_create_backend_path")
    /\ LET configured == ENV_DATA.VAULT_BACKEND_PATH # None
           path == IF configured THEN ENV_DATA.VAULT_BACKEND_PATH
                   ELSE VAULT_DEFAULT_PATH_PREFIX \o "-" \o clusterID
           fetched == IF configured THEN <<>> ELSE <<get_cluster_id>>
       IN  /\ self' = [self EXCEPT !.vault_backend_path = path,
                                   !.cluster_id = IF configured THEN @ ELSE clusterID]
           /\ \E out \in Outputs :
                /\ cmds' = cmds \o fetched \o <<Cmd("vault secrets enable", path, "", out)>>
                /\ IF HasSuccess(out)
                   THEN /\ enabled' = enabled \cup {path}
                        /\ Continue(<<"vault_create_policy">>)
                   ELSE /\ enabled' = enabled
                        /\ Raise("VaultPathCreationFailed")
    /\ Frame
    /\ UNCHANGED <<environ, sealed, policies>>

\* lines 283-310, up to the call of generate_vault_token
vault_create_policy ==
    /\ At("vault_create_policy")
    /\ LET glob == Str(self.vault_backend_path) \o "/*" IN
       IF ENV_DATA.VAULT_POLICY = None /\ self.cluster_id = Unassigned
       THEN /\ RaiseUnassigned("cluster_id")
            /\ UNCHANGED <<self, cmds, policies>>
       ELSE LET name == IF ENV_DATA.VAULT_POLICY = None
                        THEN VAULT_DEFAULT_POLICY_PREFIX \o "-" \o self.cluster_id
                        ELSE ENV_DATA.VAULT_POLICY
            IN  /\ self' = [self EXCEPT !.vault_policy_name = name]
                /\ \E out \in Outputs :
                     /\ cmds' = Append(cmds, Cmd("vault policy write", name, glob, out))
                     /\ IF HasSuccess(out)
                        THEN /\ policies' = policies \cup {<<name, glob>>}
                             /\ Continue(<<"generate_vault_token">>)
                        ELSE /\ policies' = policies
                             /\ Raise("VaultPolicyCreationFailed")
    /\ Frame
    /\ UNCHANGED <<environ, sealed, enabled>>

\* line 310 and lines 320-323: the token the server answers is kept
generate_vault_token ==
    /\ At("generate_vault_token")
    /\ \E t \in Tokens :
         /\ cmds' = Append(cmds, TokCmd("vault token create", self.vault_policy_name, t))
         /\ self' = [self EXCEPT !.vault_path_token = t]
    /\ Continue(<<>>)
    /\ Frame
    /\ UNCHANGED <<environ, sealed, enabled, policies>>

(***************************************************************************)
(* create_ocs_vault_resources                                              *)
(***************************************************************************)
\* line 129: which resources are attempted
create_ocs_vault_resources ==
    /\ At("create_ocs_vault_resources")
    /\ IF ~ENV_DATA.VAULT_SKIP_VERIFY
       THEN Continue(<<"create_ca", "create_clientcert", "create_clientkey",
                       "create_token", "create_kmsconnection">>)
       ELSE Continue(<<"create_token", "create_kmsconnection">>)
    /\ Frame
    /\ UNCHANGED <<self, environ, sealed, enabled, policies, cmds>>

\* lines 131-137
create_ca ==
    /\ At("create_ca")
    /\ self' = [self EXCEPT !.ca_cert_name = VAULT_DEFAULT_CA_CERT]
    /\ IF self.ca_cert_base64 = Unassigned
       THEN /\ RaiseUnassigned("ca_cert_base64")
            /\ cmds' = cmds
       ELSE /\ cmds' = Append(cmds, create_resource(
                          [NoRes EXCEPT !.name = VAULT_DEFAULT_CA_CERT,
                                        !.cert = self.ca_cert_base64], "ca"))
            /\ Continue(<<>>)
    /\ Frame
    /\ UNCHANGED <<environ, sealed, enabled, policies>>

\* lines 140-148
create_clientcert ==
    /\ At("create_clientcert")
    /\ self' = [self EXCEPT !.client_cert_name = VAULT_DEFAULT_CLIENT_CERT]
    /\ IF self.client_cert_base64 = Unassigned
       THEN /\ RaiseUnassigned("client_cert_base64")
            /\ cmds' = cmds
       ELSE /\ cmds' = Append(cmds, create_resource(
                          [NoRes EXCEPT !.name = VAULT_DEFAULT_CLIENT_CERT,
                                        !.cert = self.client_cert_base64], "clientcert"))
            /\ Continue(<<>>)
    /\ Frame
    /\ UNCHANGED <<environ, sealed, enabled, policies>>

\* lines 151-157: line 155 indexes the name, a str, with "metadata"
create_clientkey ==
    /\ At("create_clientkey")
    /\ self' = [self EXCEPT !.client_key_name = VAULT_DEFAULT_CLIENT_KEY]
    /\ Raise("TypeError")
    /\ Frame
    /\ UNCHANGED <<environ, sealed, enabled, policies, cmds>>

\* create_token storing the root token instead of the path token
create_token_Root ==
    /\ At("create_token")
    /\ IF self.vault_root_token = NoneTok
       THEN /\ Raise("AttributeError")
            /\ cmds' = cmds
       ELSE /\ cmds' = Append(cmds, create_resource(
                          [NoRes EXCEPT !.token =
                              B64Encode(Utf8Encode(self.vault_root_token))], "token"))
            /\ Continue(<<>>)
    /\ Frame
    /\ UNCHANGED <<self, environ, sealed, enabled, policies>>

\* lines 160-166
create_token ==
    /\ At("create_token")
    /\ IF self.vault_path_token = NoneTok
       THEN \* None.encode()
            /\ Raise("AttributeError")
            /\ cmds' = cmds
       ELSE /\ cmds' = Append(cmds, create_resource(
                          [NoRes EXCEPT !.token =
                              B64Encode(Utf8Encode(self.vault_path_token))], "token"))
            /\ Continue(<<>>)
    /\ Frame
    /\ UNCHANGED <<self, environ, sealed, enabled, policies>>

\* lines 169-184
create_kmsconnection ==
    /\ At("create_kmsconnection")
    /\ self' = [self EXCEPT !.vault_namespace = VAULT_DEFAULT_NAMESPACE]
    /\ IF self.vault_tls_server = Unassigned
       THEN /\ RaiseUnassigned("vault_tls_server")
            /\ cmds' = cmds
       ELSE /\ cmds' = Append(cmds, create_resource(
                          [NoRes EXCEPT !.data =
                              <<"https://" \o Str(self.vault_server) \o ":" \o Str(self.port),
                                self.vault_backend_path, self.ca_cert_name,
                                self.client_cert_name, self.client_key_name,
                                VAULT_DEFAULT_NAMESPACE, self.vault_tls_server>>],
                          "kmsconnection"))
            /\ Continue(<<>>)
    /\ Frame
    /\ UNCHANGED <<environ, sealed, enabled, policies>>

(***************************************************************************)
(* The specification                                                       *)
(***************************************************************************)
Step ==
    \/ deploy
    \/ deploy_vault_internal
    \/ deploy_vault_external
    \/ update_vault_env_vars
    \/ vault_prereq
    \/ get_vault_cli
    \/ vault_unseal
    \/ \E i \in 1..3 : _vault_unseal(i)
    \/ vault_unseal_check
    \/ vault_create_backend_path
    \/ vault_create_policy
    \/ generate_vault_token
    \/ create_ocs_vault_resources
    \/ create_ca
    \/ create_clientcert
    \/ create_clientkey
    \/ create_token
    \/ create_kmsconnection

Next ==
    \/ \E m \in EntryPoints : Call(m)
    \/ Step

Spec == Init /\ [][Next]_vars

\* a call in progress is run to its end: the driver is one synchronous thread
FairSpec == Spec /\ WF_vars(Step)

(***************************************************************************)
(* Vocabulary of the properties                                            *)
(***************************************************************************)
Ended == ~Running /\ entry # ""
Pending(label) == \E i \in DOMAIN todo : todo[i] = label
At_(c) == {i \in DOMAIN cmds : cmds[i].cmd = c}
Count(c) == Cardinality(At_(c))
Created(kind) == {i \in DOMAIN cmds : cmds[i].cmd = "oc create" /\ cmds[i].arg = kind}
Kinds == {"ca", "clientcert", "clientkey", "token", "kmsconnection"}
RECURSIVE CreatedKinds(_)
CreatedKinds(l) ==
    IF l = <<>> THEN <<>>
    ELSE (IF Head(l).cmd = "oc create" THEN <<Head(l).arg>> ELSE <<>>)
         \o CreatedKinds(Tail(l))
VaultCmds == {"vault status", "vault operator unseal", "vault secrets enable",
              "vault policy write", "vault token create"}
ExternalDeploy == entry = "deploy" /\ self.vault_deploy_mode = "external"

(***************************************************************************)
(* C2: deploy() dispatches on vault_deploy_mode only: "external" runs the  *)
(* external deployment; "internal" runs the stub, which issues no command  *)
(* and changes no attribute; any other value, None included, raises        *)
(* UnsupportedVaultDeployMode with no command issued and the environment   *)
(* unchanged.                                                              *)
(***************************************************************************)
ExternalLabels == {"deploy_vault_external", "update_vault_env_vars", "vault_prereq",
                   "get_vault_cli", "vault_unseal", "vault_create_backend_path",
                   "create_ocs_vault_resources"}

C2_DeployDispatch ==
    entry = "deploy" =>
      /\ self.vault_deploy_mode = "external" =>
           /\ Running => (todo = <<"deploy">> \/ \E l \in ExternalLabels : Pending(l))
           /\ Ended => self.vault_conf = "vault" /\ environ.VAULT_TOKEN = RootToken
      /\ self.vault_deploy_mode = "internal" =>
           /\ cmds = <<>> /\ self = self0 /\ environ = environ0
           /\ Running => todo \in {<<"deploy">>, <<"deploy_vault_internal">>}
           /\ Ended => result = "returned"
      /\ self.vault_deploy_mode \notin {"external", "internal"} =>
           /\ cmds = <<>> /\ self = self0 /\ environ = environ0
           /\ Running => todo = <<"deploy">>
           /\ Ended => result = "UnsupportedVaultDeployMode"

C2_Witness ==
    /\ entry = "deploy" /\ Ended
    /\ self.vault_deploy_mode = None
    /\ result = "UnsupportedVaultDeployMode"
    /\ self.vault_path_token # NoneTok

(***************************************************************************)
(* C3: a 'vault secrets enable' whose output lacks "Success" ends the call *)
(* with VaultPathCreationFailed, and a 'vault policy write' whose output   *)
(* lacks "Success" ends it with VaultPolicyCreationFailed; in both cases   *)
(* no later command follows (no policy, token or cluster resource), the    *)
(* failed command is not repeated, and what the earlier steps did (the     *)
(* enabled path) stays in place.                                           *)
(***************************************************************************)
C3_FailureStopsDeployment ==
    /\ \A i \in At_("vault secrets enable") :
         ~HasSuccess(cmds[i].out) =>
           /\ Ended /\ result = "VaultPathCreationFailed"
           /\ i = Len(cmds)
           /\ Count("vault secrets enable") = 1
           /\ Count("vault policy write") = 0
           /\ Count("vault token create") = 0
           /\ Count("oc create") = 0
    /\ \A i \in At_("vault policy write") :
         ~HasSuccess(cmds[i].out) =>
           /\ Ended /\ result = "VaultPolicyCreationFailed"
           /\ i = Len(cmds)
           /\ Count("vault policy write") = 1
           /\ Count("vault token create") = 0
           /\ Count("oc create") = 0
           /\ cmds[i - 1].cmd = "vault secrets enable"
           /\ HasSuccess(cmds[i - 1].out)
           /\ cmds[i - 1].arg \in enabled
           /\ self.vault_backend_path = cmds[i - 1].arg

C3_Witness ==
    /\ Ended /\ result = "VaultPolicyCreationFailed"
    /\ Count("vault secrets enable") = 1
    /\ self.vault_backend_path \in enabled

(***************************************************************************)
(* C4: with the auth file read, vault_unseal issues unseal commands only   *)
(* if the first status check reports sealed: none if it reports unsealed;  *)
(* otherwise exactly three, with UNSEAL_KEY1, UNSEAL_KEY2, UNSEAL_KEY3 in  *)
(* that order, then exactly one more status check, and if that one still   *)
(* reports sealed the call ends with VaultUnsealFailed and no backend path *)
(* is enabled.                                                             *)
(***************************************************************************)
IsSealCmd(c) == c.cmd \in {"vault status", "vault operator unseal"}
UnsealKeys == <<AuthVault.UNSEAL_KEY1, AuthVault.UNSEAL_KEY2, AuthVault.UNSEAL_KEY3>>

NoRetry ==
    /\ Count("vault secrets enable") <= 1
    /\ Count("vault policy write") <= 1
    /\ Count("vault token create") <= 1
    /\ Count("vault status") <= 2
    /\ Count("vault operator unseal") <= 3
    /\ \A k \in Kinds : Cardinality(Created(k)) <= 1

C9_NoRetryAndTerminates == []NoRetry /\ (Running ~> Ended)

C9_Witness ==
    /\ Ended /\ result = "returned"
    /\ Count("vault operator unseal") = 3
    /\ Count("vault status") = 2

BeforeCli == {"deploy", "deploy_vault_external", "update_vault_env_vars",
              "vault_prereq", "get_vault_cli"}
GetVaultCliDone ==
    /\ ExternalDeploy \/ entry = "vault_prereq"
    /\ \A l \in BeforeCli : ~Pending(l)
InstallCmds == <<"sudo yum install -y", "sudo yum-config-manager --add-repo",
                 "sudo yum -y install">>

C5_PlatformDispatch ==
    GetVaultCliDone =>
      IF host = "CentOS Linux"
      THEN /\ Len(cmds) >= 3
           /\ \A i \in 1..3 : cmds[i].cmd = InstallCmds[i]
           /\ Len(cmds) = 3 => At("vault_unseal")
      ELSE /\ Ended /\ result = "VaultPlatformNotSupported"
           /\ \A c \in VaultCmds : Count(c) = 0

(***************************************************************************)
(* C1: an external-mode deploy() goes through its steps in order, none     *)
(* skipped: auth config read, VAULT_ADDR and VAULT_TOKEN set, vault CLI    *)
(* obtained, unseal if sealed, backend path enabled, policy written, path  *)
(* token generated, and only then the cluster resources created.  A call   *)
(* that does not stop on one of the module's own errors has done all of    *)
(* them; no 'oc create' precedes the token, no vault command precedes the  *)
(* environment variables.                                                  *)
(***************************************************************************)
ModuleErrors == {"VaultPlatformNotSupported", "VaultUnsealFailed",
                 "VaultPathCreationFailed", "VaultPolicyCreationFailed"}

StepsInOrder ==
    /\ self.vault_conf = "vault"
    /\ \A i \in DOMAIN cmds : cmds[i].cmd \in VaultCmds => cmds[i].env
    /\ \A i \in At_("vault status"), j \in At_("vault secrets enable") : i < j
    /\ \A i \in At_("vault secrets enable"), j \in At_("vault policy write") : i < j
    /\ \A i \in At_("vault policy write"), j \in At_("vault token create") : i < j
    /\ \A i \in At_("oc create") : \E j \in At_("vault token create") : j < i

C6_AssignedBeforeRead ==
    entry \in {"deploy", "vault_prereq", "vault_create_backend_path"} => fault = ""

(***************************************************************************)
(* C7: create_ocs_vault_resources, called with the attributes of the       *)
(* earlier steps in place, creates the resources VAULT_SKIP_VERIFY         *)
(* selects: unset, the five resources ca cert, client cert, client key,    *)
(* token, kms connection details in that order; set, exactly token and kms *)
(* connection details; and returns normally after the last one.            *)
(***************************************************************************)
Prepared == self0.vault_conf = "vault" /\ self0.vault_path_token \in Tokens

C7_ResourcesCreated ==
    (entry = "create_ocs_vault_resources" /\ Ended /\ Prepared) =>
      /\ result = "returned"
      /\ CreatedKinds(cmds) =
           IF ~ENV_DATA.VAULT_SKIP_VERIFY
           THEN <<"ca", "clientcert", "clientkey", "token", "kmsconnection">>
           ELSE <<"token", "kmsconnection">>

(***************************************************************************)
(* C8: once the backend path is enabled, its name is VAULT_BACKEND_PATH if *)
(* configured and "<path prefix>-<cluster id>" otherwise, and a policy is  *)
(* written under the name VAULT_POLICY if configured and "<policy          *)
(* prefix>-<cluster id>" otherwise, the cluster id being the one fetched   *)
(* in the same call; the policy grants access to exactly the path enabled. *)
(***************************************************************************)
C8_NamesFromConfigOrClusterId ==
    \A i \in At_("vault secrets enable") :
      (Ended /\ HasSuccess(cmds[i].out)) =>
        /\ cmds[i].arg = IF ENV_DATA.VAULT_BACKEND_PATH # None
                         THEN ENV_DATA.VAULT_BACKEND_PATH
                         ELSE VAULT_DEFAULT_PATH_PREFIX \o "-" \o clusterID
        /\ \E j \in At_("vault policy write") :
             /\ cmds[j].arg2 = cmds[i].arg \o "/*"
             /\ cmds[j].arg = IF ENV_DATA.VAULT_POLICY # None
                              THEN ENV_DATA.VAULT_POLICY
                              ELSE VAULT_DEFAULT_POLICY_PREFIX \o "-" \o clusterID
             /\ ENV_DATA.VAULT_POLICY = None =>
                  \E k \in At_("oc get clusterversion") :
                     k < j /\ cmds[k].out = clusterID

====
